---- MODULE Spec2Model ----
(***************************************************************************)
(* A model of the DQN training loop of rezero/dqn.py (DQNLightning) and of *)
(* reinforcement/agent/simple_agent.py (BasicAgent).                       *)
(*                                                                         *)
(* Numbers.  Python floats are modelled by exact rationals over fixed      *)
(* denominators: an epsilon or a random draw x is the integer              *)
(* x * EpsUnit * eps_last_frame (see Scaled), a loss is a fraction         *)
(* num / den of integers.                                                  *)
(* Network weights are identified by the number of optimizer updates that  *)
(* produced them (0 = the online network as constructed); the target       *)
(* network's own initial weights are InitTargetWeights.                    *)
(***************************************************************************)
EXTENDS Integers, Sequences, FiniteSets, TLC

\* ---------------------------------------------------------------- bounds
\* replay_size is drawn from 1..MaxReplay
MaxReplay == 2
\* training stops when global_step reaches MaxGlobalStep
MaxGlobalStep == 3
\* the values of warm_start_steps, of sync_rate and of eps_last_frame
WarmStarts == {2}
SyncRates == {1, 2, 3}
LastFrames == {2}

\* ------------------------------------------------------- program constants
\* eps_start = 1.0 and eps_end = 0.01, in units of 1 / EpsUnit
EpsUnit == 100
eps_start == 100
eps_end == 1
\* gamma = 0.99 = GammaNum / GammaDen
GammaNum == 99
GammaDen == 100
\* the weights target_net is constructed with (its own DQN(...) instance)
InitTargetWeights == -1

\* the environment's observation space, action space and rewards
States == {0, 1}
Actions == {0, 1}
Rewards == {1, 2}
\* the reward env.step pays for a transition into new_state
EnvReward(new_state) == 1 + new_state
\* observations env.reset() may return (a proper subset of the observations)
ResetObs == {0}
\* values np.random.random() may return, in units of 1 / EpsUnit: [0, 1)
Draws == {0, 99}

Experience == [state : States, action : Actions, reward : Rewards,
               done : BOOLEAN, new_state : States]

NoCall == [state |-> 0, epsilon |-> 0, draw |-> 0, action |-> 0, reward |-> 0,
           done |-> FALSE, new_state |-> 0, evals |-> <<>>,
           ret |-> [reward |-> 0, done |-> FALSE], who |-> "none"]

VARIABLES
    hparams,         \* the argparse namespace: replay_size, warm_start_steps, sync_rate, eps_last_frame
    env,             \* the gym environment: obs (current observation), steps, resets
    agent,           \* BasicAgent's fields: env, replay_buffer (references), state
    buffer,          \* the ReplayBuffer's contents, oldest first
    net,             \* weights of self.net
    target_net,      \* weights of self.target_net
    total_reward,
    episode_reward,
    global_step,     \* the trainer's global_step
    pc,              \* "populate", "training_step", "optimizer_step", "done"; "loss", "lossdone"
    populated,       \* populate's loop counter i
    last,            \* the latest play_step call: the agent's state before it, epsilon,
                     \* the draw, the action, env.step's answer, the network evaluations,
                     \* the returned pair (ret) and the caller (who)
    epsilon,         \* the epsilon training_step computed last
    returned,        \* the sum of all rewards play_step returned to training_step
    doneMark,        \* returned, as it was after the latest training_step that observed done
    prevMark,        \* doneMark, as it was before that training_step
    batch,           \* the minibatch handed to dqn_mse_loss
    loss,            \* the latest loss, the fraction num / den
    lossEvals,       \* the network evaluations of the latest dqn_mse_loss
    lossTarget,      \* the target weights the latest dqn_mse_loss used
    synced           \* whether the latest training_step executed load_state_dict

vars == <<hparams, env, agent, buffer, net, target_net, total_reward, episode_reward,
          global_step, pc, populated, last, epsilon, returned, doneMark, prevMark,
          batch, loss, lossEvals, lossTarget, synced>>

\* ------------------------------------------------------------ helpers
\* x (in units of 1 / EpsUnit) over the denominator EpsUnit * eps_last_frame
Scaled(x) == x * hparams.eps_last_frame

Max2(a, b) == IF a >= b THEN a ELSE b

MaxOf(f) == CHOOSE m \in {f[a] : a \in DOMAIN f} : \A a \in DOMAIN f : f[a] <= m

\* DQN(obs_size, n_actions) applied to one observation: the Q-value of each
\* action, a fixed function of the weights and the observation
QValues(w, s) == [a \in Actions |-> ((w + 2) * (a + 1) + s) % 3]

\* torch.max(q_values, dim=1): the indices holding the maximum
ArgMax(q) == {a \in DOMAIN q : q[a] = MaxOf(q)}

\* ------------------------------------------------------------ the agent
\* get_action with torch.min in place of torch.max
get_action_min(state, w, eps, draw) ==
    IF Scaled(draw) < eps
    THEN Actions
    ELSE {a \in Actions : \A c \in Actions : QValues(w, state)[a] <= QValues(w, state)[c]}

\* BasicAgent.get_action: the actions the call may return, given the agent's
\* state, the network's weights, epsilon and the value np.random.random() drew
get_action(state, w, eps, draw) ==
    IF Scaled(draw) < eps
    THEN Actions
    ELSE ArgMax(QValues(w, state))

\* the network evaluations get_action makes
get_action_evals(state, w, eps, draw) ==
    IF Scaled(draw) < eps
    THEN <<>>
    ELSE <<[net |-> w, input |-> state]>>

\* the experience built after self.state = new_state
NewExperience_late(state, action, reward, done, new_state) ==
    [state |-> new_state, action |-> action, reward |-> reward, done |-> done,
     new_state |-> new_state]

\* Experience(self.state, action, reward, done, new_state)
NewExperience(state, action, reward, done, new_state) ==
    [state |-> state, action |-> action, reward |-> reward, done |-> done,
     new_state |-> new_state]

\* a buffer one transition larger than replay_size
BufferCapacity_plus1 == hparams.replay_size + 1

\* ReplayBuffer(self.hparams.replay_size)
BufferCapacity == hparams.replay_size

\* ReplayBuffer.append: a deque of maxlen capacity
BufferAppend(buf, exp, capacity) ==
    IF capacity = 0 THEN buf
    ELSE IF Len(buf) >= capacity THEN Append(Tail(buf), exp)
    ELSE Append(buf, exp)

\* play_step without the reset after done
StateAfter_noreset(new_state, done, obs0) == new_state

\* play_step without self.state = new_state
StateAfter_stale(new_state, done, obs0) == IF done THEN obs0 ELSE agent.state

\* self.state = new_state; if done: self.reset()
StateAfter(new_state, done, obs0) == IF done THEN obs0 ELSE new_state

\* the environment after env.step(action), and after the env.reset() of
\* BasicAgent.reset when the step returned done
EnvAfter(e, new_state, done, obs0) ==
    [obs |-> IF done THEN obs0 ELSE new_state,
     steps |-> e.steps + 1,
     resets |-> IF done THEN e.resets + 1 ELSE e.resets]

\* return reward, done
PlayStepReturn(reward, done) == [reward |-> reward, done |-> done]

\* BasicAgent.play_step(net, epsilon, device), called by who
play_step(w, eps, who) ==
    \E draw \in Draws, new_state \in States, done \in BOOLEAN, obs0 \in ResetObs :
      \E action \in get_action(agent.state, w, eps, draw) :
       LET reward == EnvReward(new_state) IN
        /\ env' = EnvAfter(env, new_state, done, obs0)
        /\ buffer' = BufferAppend(buffer,
                        NewExperience(agent.state, action, reward, done, new_state),
                        BufferCapacity)
        /\ agent' = [agent EXCEPT !.state = StateAfter(new_state, done, obs0)]
        /\ last' = [state |-> agent.state, epsilon |-> eps, draw |-> draw,
                    action |-> action, reward |-> reward, done |-> done,
                    new_state |-> new_state,
                    evals |-> get_action_evals(agent.state, w, eps, draw),
                    ret |-> PlayStepReturn(reward, done),
                    who |-> who]

\* ------------------------------------------------------------ the loss
RECURSIVE SumSeq(_)
SumSeq(s) == IF s = <<>> THEN 0 ELSE Head(s) + SumSeq(Tail(s))

\* nn.MSELoss()(x, y), the mean of the squared differences, for x and y given
\* over the denominator GammaDen
MSELoss(x, y) ==
    [num |-> SumSeq([i \in DOMAIN x |-> (x[i] - y[i]) * (x[i] - y[i])]),
     den |-> GammaDen * GammaDen * Len(x)]

\* dqn_mse_loss without next_state_values[dones] = 0.0
dqn_mse_loss_nomask(b, w, tw) ==
    MSELoss([i \in DOMAIN b |-> QValues(w, b[i].state)[b[i].action] * GammaDen],
            [i \in DOMAIN b |->
               MaxOf(QValues(tw, b[i].new_state)) * GammaNum + b[i].reward * GammaDen])

\* the network dqn_mse_loss applies to next_states: self.target_net
NextStateNet(w, tw) == tw

\* DQNLightning.dqn_mse_loss(batch) with the weights w of self.net and tw of
\* self.target_net
dqn_mse_loss(b, w, tw) ==
    LET state_action_values == [i \in DOMAIN b |-> QValues(w, b[i].state)[b[i].action]]
        next_all == [i \in DOMAIN b |-> MaxOf(QValues(NextStateNet(w, tw), b[i].new_state))]
        next_state_values == [i \in DOMAIN b |-> IF b[i].done THEN 0 ELSE next_all[i]]
        expected_state_action_values ==
            [i \in DOMAIN b |-> next_state_values[i] * GammaNum + b[i].reward * GammaDen]
    IN  MSELoss([i \in DOMAIN b |-> state_action_values[i] * GammaDen],
                expected_state_action_values)

\* the network evaluations dqn_mse_loss makes: which weights on which column
dqn_mse_loss_evals(w, tw) ==
    {[net |-> w, input |-> "states"], [net |-> NextStateNet(w, tw), input |-> "next_states"]}

\* the minibatches of n transitions the dataloader may draw from the buffer
Sample(buf, n) ==
    {[j \in 1..n |-> buf[f[j]]] : f \in [1..n -> 1..Len(buf)]}

\* ------------------------------------------------------- the training loop
\* epsilon = max(eps_end, eps_start - global_step + 1 / eps_last_frame),
\* over the denominator EpsUnit * eps_last_frame
Epsilon(g) ==
    Max2(Scaled(eps_end), Scaled(eps_start) - g * EpsUnit * hparams.eps_last_frame + EpsUnit)

\* a synchronisation at the steps before the multiples of sync_rate
SyncDue_early(g) == (g + 1) % hparams.sync_rate = 0

\* self.global_step % self.hparams.sync_rate == 0
SyncDue(g) == g % hparams.sync_rate = 0

\* the loss computed after the synchronisation check
LossTargetWeights_aftersync(g) == IF SyncDue(g) THEN net ELSE target_net

\* the target weights self.dqn_mse_loss(batch) reads inside training_step
LossTargetWeights(g) == target_net

\* self.episode_reward += reward; if done: self.episode_reward = 0
EpisodeRewardAfter(ep, reward, done) == IF done THEN 0 ELSE ep + reward

\* total_reward taken before the terminal step's reward is added
TotalRewardAfter_early(tot, ep, reward, done) == IF done THEN ep ELSE tot

\* if done: self.total_reward = self.episode_reward
TotalRewardAfter(tot, ep, reward, done) == IF done THEN ep + reward ELSE tot

Init ==
    /\ hparams \in [replay_size : 1..MaxReplay, warm_start_steps : WarmStarts,
                    sync_rate : SyncRates, eps_last_frame : LastFrames,
                    batch_size : {1}]
    /\ \E obs1 \in ResetObs, obs2 \in ResetObs :
         /\ env = [obs |-> obs2, steps |-> 0, resets |-> 2]
         /\ agent = [env |-> "env", replay_buffer |-> "buffer", state |-> obs2]
    /\ buffer = <<>>
    /\ net = 0
    /\ target_net = InitTargetWeights
    /\ total_reward = 0
    /\ episode_reward = 0
    /\ global_step = 0
    /\ pc = "populate"
    /\ populated = 0
    /\ last = NoCall
    /\ epsilon = 0
    /\ returned = 0
    /\ doneMark = 0
    /\ prevMark = 0
    /\ batch = <<>>
    /\ loss = [num |-> 0, den |-> 1]
    /\ lossEvals = {}
    /\ lossTarget = InitTargetWeights
    /\ synced = FALSE

\* one iteration of populate's loop: self.agent.play_step(self.net, epsilon=1.0)
populate ==
    /\ pc = "populate"
    /\ populated < hparams.warm_start_steps
    /\ play_step(net, Scaled(EpsUnit), "populate")
    /\ populated' = populated + 1
    /\ pc' = IF populated' = hparams.warm_start_steps THEN "training_step" ELSE "populate"
    /\ UNCHANGED <<hparams, net, target_net, total_reward, episode_reward, global_step,
                   epsilon, returned, doneMark, prevMark, batch, loss, lossEvals,
                   lossTarget, synced>>

\* DQNLightning.training_step(batch, nb_batch)
training_step ==
    /\ pc = "training_step"
    /\ \E b \in Sample(buffer, hparams.batch_size) :
         loss' = dqn_mse_loss(b, net, LossTargetWeights(global_step))
    /\ epsilon' = Epsilon(global_step)
    /\ play_step(net, epsilon', "training_step")
    /\ episode_reward' = EpisodeRewardAfter(episode_reward, last'.ret.reward, last'.ret.done)
    /\ total_reward' = TotalRewardAfter(total_reward, episode_reward, last'.ret.reward,
                                        last'.ret.done)
    /\ lossEvals' = dqn_mse_loss_evals(net, LossTargetWeights(global_step))
    /\ lossTarget' = LossTargetWeights(global_step)
    /\ target_net' = IF SyncDue(global_step) THEN net ELSE target_net
    /\ synced' = SyncDue(global_step)
    /\ returned' = returned + last'.ret.reward
    /\ doneMark' = IF last'.ret.done THEN returned' ELSE doneMark
    /\ prevMark' = IF last'.ret.done THEN doneMark ELSE prevMark
    /\ pc' = "optimizer_step"
    /\ UNCHANGED <<hparams, net, global_step, populated, batch>>

\* the trainer after training_step: the Adam update of self.net's parameters
\* (configure_optimizers), then global_step += 1
optimizer_step ==
    /\ pc = "optimizer_step"
    /\ net' = net + 1
    /\ global_step' = global_step + 1
    /\ pc' = IF global_step' < MaxGlobalStep THEN "training_step" ELSE "done"
    /\ UNCHANGED <<hparams, env, agent, buffer, target_net, total_reward, episode_reward,
                   populated, last, epsilon, returned, doneMark, prevMark, batch, loss,
                   lossEvals, lossTarget, synced>>

Next == populate \/ training_step \/ optimizer_step

Spec == Init /\ [][Next]_vars

\* ------------------------------------------- dqn_mse_loss on its own
\* the weights and the minibatch sizes dqn_mse_loss is applied to
LossNetWeights == {0, 1, 2}
LossTargetNetWeights == {InitTargetWeights, 0, 1}
LossBatchSizes == {1, 2}

InitLoss ==
    /\ hparams = [replay_size |-> 1, warm_start_steps |-> 0, sync_rate |-> 1,
                  eps_last_frame |-> 1, batch_size |-> 1]
    /\ env = [obs |-> 0, steps |-> 0, resets |-> 2]
    /\ agent = [env |-> "env", replay_buffer |-> "buffer", state |-> 0]
    /\ buffer = <<>>
    /\ net \in LossNetWeights
    /\ target_net \in LossTargetNetWeights
    /\ total_reward = 0
    /\ episode_reward = 0
    /\ global_step = 0
    /\ pc = "loss"
    /\ populated = 0
    /\ last = NoCall
    /\ epsilon = 0
    /\ returned = 0
    /\ doneMark = 0
    /\ prevMark = 0
    /\ \E n \in LossBatchSizes : batch \in [1..n -> Experience]
    /\ loss = [num |-> 0, den |-> 1]
    /\ lossEvals = {}
    /\ lossTarget = InitTargetWeights
    /\ synced = FALSE

\* loss = self.dqn_mse_loss(batch)
loss_step ==
    /\ pc = "loss"
    /\ loss' = dqn_mse_loss(batch, net, target_net)
    /\ lossEvals' = dqn_mse_loss_evals(net, target_net)
    /\ lossTarget' = target_net
    /\ pc' = "lossdone"
    /\ UNCHANGED <<hparams, env, agent, buffer, net, target_net, total_reward,
                   episode_reward, global_step, populated, last, epsilon, returned,
                   doneMark, prevMark, batch, synced>>

SpecLoss == InitLoss /\ [][loss_step]_vars

\* ------------------------------------------------------------ properties
\* the number of training_step calls executed so far
TrainSteps == IF pc = "optimizer_step" THEN global_step + 1 ELSE global_step

\* the weights self.net had during the latest play_step call
CallNet == IF last.who = "training_step" /\ pc # "optimizer_step" THEN net - 1 ELSE net

Min2(a, b) == IF a <= b THEN a ELSE b

\* the transition the latest play_step call saw: the agent's state before the
\* step, the chosen action and env.step's answer
LastTransition ==
    [state |-> last.state, action |-> last.action, reward |-> last.reward,
     done |-> last.done, new_state |-> last.new_state]

\* C1: the replay buffer never holds more than replay_size transitions; every
\* play_step appends one transition at the end, and when the buffer is full it
\* drops exactly the oldest one and keeps the others in their order.
C1_BoundedFifo ==
    /\ [](Len(buffer) <= hparams.replay_size)
    /\ [][env'.steps = env.steps + 1 =>
            /\ buffer'[Len(buffer')] = LastTransition'
            /\ IF Len(buffer) < hparams.replay_size
               THEN /\ Len(buffer') = Len(buffer) + 1
                    /\ SubSeq(buffer', 1, Len(buffer)) = buffer
               ELSE /\ Len(buffer') = Len(buffer)
                    /\ \A i \in 1..(Len(buffer) - 1) : buffer'[i] = buffer[i + 1]]_vars

\* C1 witness: a full buffer after more appends than its capacity, holding two
\* different transitions
C1_Witness ==
    /\ env.steps > hparams.replay_size
    /\ Len(buffer) = hparams.replay_size
    /\ Len(buffer) = 2
    /\ buffer[1] # buffer[2]

\* C2 as stated: no field of the agent changes across get_action and play_step
C2_Stateless == [][agent' = agent]_vars

\* C2 amended: the agent's env and replay_buffer fields never change, but every
\* play_step overwrites its state field with the environment's current
\* observation, and a greedy get_action evaluates the network at the state the
\* earlier calls left there.
C2_OnlyStateChanges ==
    [][/\ agent'.env = agent.env
       /\ agent'.replay_buffer = agent.replay_buffer
       /\ agent'.state # agent.state => env'.steps = env.steps + 1
       /\ env'.steps = env.steps + 1 =>
            /\ agent'.state = env'.obs
            /\ last'.state = agent.state
            /\ last'.evals # <<>> => last'.evals[1].input = agent.state]_vars

\* C2 witness: a greedy call made at a state that an earlier call stored
C2_Witness ==
    /\ env.steps >= 2
    /\ last.evals # <<>>
    /\ last.state = 1
    /\ agent.state # last.state

\* C3: a draw below epsilon gives an action of the action space and no network
\* evaluation; any other draw gives one evaluation of the network at the
\* agent's state and an action of maximal Q-value; populate's calls
\* (epsilon = 1.0) are all random, and with epsilon = 0.0 every draw is greedy.
C3_EpsilonGreedy ==
    /\ last.who # "none" =>
         IF Scaled(last.draw) < last.epsilon
         THEN /\ last.action \in Actions
              /\ last.evals = <<>>
         ELSE /\ last.evals = <<[net |-> CallNet, input |-> last.state]>>
              /\ \A a \in Actions :
                   QValues(CallNet, last.state)[a] <= QValues(CallNet, last.state)[last.action]
    /\ last.who = "populate" => last.epsilon = Scaled(EpsUnit) /\ last.evals = <<>>
    /\ \A d \in Draws, st \in States :
         /\ get_action_evals(st, net, 0, d) # <<>>
         /\ \A c \in get_action(st, net, 0, d), a \in Actions :
              QValues(net, st)[a] <= QValues(net, st)[c]

\* C3 witness: a greedy call of training_step whose Q-values differ
C3_Witness ==
    /\ last.who = "training_step"
    /\ last.evals # <<>>
    /\ \E a \in Actions : QValues(CallNet, last.state)[a] < QValues(CallNet, last.state)[last.action]

\* C4: after n play_step calls the environment has made n steps and the buffer
\* has received n transitions; the newest one is (state before, action, reward,
\* done, new state) of the latest call, whose result is that reward and done;
\* populate makes warm_start_steps calls.
C4_OneStepOneAppend ==
    /\ env.steps = populated + TrainSteps
    /\ Len(buffer) = Min2(env.steps, hparams.replay_size)
    /\ pc # "populate" => populated = hparams.warm_start_steps
    /\ last.who # "none" =>
         /\ buffer[Len(buffer)] = LastTransition
         /\ last.reward = EnvReward(last.new_state)
         /\ last.ret = [reward |-> last.reward, done |-> last.done]

\* C4 witness: populate has just finished with a step that changed the state
C4_Witness ==
    /\ pc = "training_step"
    /\ global_step = 0
    /\ env.steps = hparams.warm_start_steps
    /\ last.state # last.new_state

\* C5: a training_step at global_step g copies net into target_net exactly when
\* g is a multiple of sync_rate, after which the two are equal; every other
\* step of the program leaves target_net unchanged.
C5_PeriodicSync ==
    [][IF pc = "training_step" /\ global_step % hparams.sync_rate = 0
       THEN synced' /\ target_net' = net /\ target_net' = net'
       ELSE /\ target_net' = target_net
            /\ pc = "training_step" => ~synced']_vars

\* C5 witness: a synchronisation at a step other than the first
C5_Witness ==
    /\ pc = "optimizer_step"
    /\ synced
    /\ global_step = 2
    /\ hparams.sync_rate = 2
    /\ target_net = 2

\* C6 as stated, for the epsilon of the latest training_step: eps_start at
\* global_step 0, never above eps_start nor below eps_end, above eps_end
\* before eps_last_frame and eps_end from eps_last_frame on
C6_DecaySchedule ==
    pc = "optimizer_step" =>
      /\ global_step = 0 => epsilon = Scaled(eps_start)
      /\ epsilon <= Scaled(eps_start)
      /\ epsilon >= Scaled(eps_end)
      /\ global_step < hparams.eps_last_frame => epsilon > Scaled(eps_end)
      /\ global_step >= hparams.eps_last_frame => epsilon = Scaled(eps_end)

\* the Bellman target of one transition, over the denominator GammaDen
BellmanTarget(e, tw) ==
    IF e.done
    THEN e.reward * GammaDen
    ELSE e.reward * GammaDen
           + GammaNum * (CHOOSE m \in {QValues(tw, e.new_state)[a] : a \in Actions} :
                           \A a \in Actions : QValues(tw, e.new_state)[a] <= m)

\* the sum over the batch of the squared differences, over GammaDen^2
RECURSIVE BellmanSquares(_, _, _)
BellmanSquares(b, w, tw) ==
    IF b = <<>> THEN 0
    ELSE LET e == Head(b)
             d == QValues(w, e.state)[e.action] * GammaDen - BellmanTarget(e, tw)
         IN  d * d + BellmanSquares(Tail(b), w, tw)

\* C7: the loss is the mean over the batch of the squared difference between
\* the online Q-value of (s, a) and r + gamma * max_a' Q_target(s', a') (r alone
\* when done); the online network is evaluated on the states and only the
\* target network on the next states.
C7_BellmanMse ==
    pc = "lossdone" =>
      /\ loss.num = BellmanSquares(batch, net, target_net)
      /\ loss.den = GammaDen * GammaDen * Len(batch)
      /\ lossEvals = {[net |-> net, input |-> "states"],
                      [net |-> target_net, input |-> "next_states"]}

\* C7 witness: a batch with a terminal and a non-terminal transition where
\* the masking matters
C7_Witness ==
    /\ pc = "lossdone"
    /\ Len(batch) = 2
    /\ batch[1].done
    /\ ~batch[2].done
    /\ net # target_net
    /\ loss # dqn_mse_loss_nomask(batch, net, target_net)

\* C8: after every play_step the agent's state is the environment's current
\* observation: the new state when done is false, the observation of the
\* reset when done is true; so consecutive transitions of the buffer chain.
C8_StateTracksEnv ==
    /\ agent.state = env.obs
    /\ last.who # "none" =>
         IF last.done THEN agent.state \in ResetObs ELSE agent.state = last.new_state
    /\ \A i \in 1..(Len(buffer) - 1) :
         IF buffer[i].done
         THEN buffer[i + 1].state \in ResetObs
         ELSE buffer[i + 1].state = buffer[i].new_state

\* C8 witness: a transition that ended an episode away from the reset
\* observation, followed by one that starts at the reset observation
C8_Witness ==
    /\ Len(buffer) = 2
    /\ buffer[1].done
    /\ buffer[1].new_state \notin ResetObs
    /\ buffer[2].state \in ResetObs
    /\ ~buffer[2].done

\* C9: episode_reward is the sum of the rewards returned to training_step since
\* the latest training_step that observed done, 0 right after such a step;
\* total_reward is the sum of the latest finished run of such rewards, its
\* terminal reward included; neither counts a reward of populate.
C9_RewardAccounting ==
    /\ episode_reward = returned - doneMark
    /\ total_reward = doneMark - prevMark
    /\ (pc = "optimizer_step" /\ last.ret.done) => episode_reward = 0
    /\ (pc = "optimizer_step" /\ last.ret.done) => total_reward >= last.ret.reward
    /\ TrainSteps = 0 => episode_reward = 0 /\ total_reward = 0 /\ returned = 0

\* C9 witness: the first training step ends an episode that populate started;
\* total_reward is that one step's reward
C9_Witness ==
    /\ pc = "optimizer_step"
    /\ global_step = 0
    /\ last.ret.done
    /\ Len(buffer) = 2
    /\ ~buffer[1].done
    /\ total_reward = last.ret.reward
    /\ total_reward = 2

\* the largest multiple of sync_rate strictly smaller than g
LastSyncBefore(g) ==
    CHOOSE m \in 0..(g - 1) :
      /\ m % hparams.sync_rate = 0
      /\ \A k \in (m + 1)..(g - 1) : k % hparams.sync_rate # 0

\* C10: the loss of the training step at global_step g >= 1 uses the weights
\* the online network had at step s, the largest multiple of sync_rate below
\* g, which are at least one update older than the online network's; the loss
\* of step 0 uses the target network's own initial weights.
C10_LossBeforeSync ==
    pc = "optimizer_step" =>
      IF global_step = 0
      THEN lossTarget = InitTargetWeights
      ELSE /\ lossTarget = LastSyncBefore(global_step)
           /\ lossTarget < net
           /\ [net |-> lossTarget, input |-> "next_states"] \in lossEvals

\* C10 witness: a step that synchronises, whose loss used the weights of an
\* earlier synchronisation that was not the first
C10_Witness ==
    /\ pc = "optimizer_step"
    /\ synced
    /\ global_step >= 2
    /\ lossTarget >= 1
    /\ target_net = net
    /\ lossTarget < target_net

====
